---- MODULE Spec2Model ----
(***************************************************************************)
(* Model of kueue's pending-workload queues (pkg/queue/queue.go) and of    *)
(* the workload resource accounting (pkg/workload).                        *)
(*                                                                         *)
(* Go maps are functions with a finite domain, Go slices are sequences     *)
(* (the code's 0-based positions are kept: position i is element i+1), a   *)
(* nil pointer or nil result is the empty sequence or the empty set.       *)
(***************************************************************************)
EXTENDS Integers, Sequences, FiniteSets, TLC

VARIABLES
    cq,      \* <<>> (no ClusterQueue) or <<c>>, c the *ClusterQueue
    cqErr,   \* the error newClusterQueue returned last ("" is nil)
    q,       \* the Queue
    last,    \* the last call: its name, its boolean result, the Info it returned
    pod,     \* demand calculation: the pod set under calculation
    demand,  \* demand calculation: <<>> or <<r>>, r the PodSetResources computed
    operands, \* the workload objects the caller holds or passes to a pure function
    results   \* <<>> or what the pure function returned for the operands

vars == <<cq, cqErr, q, last, pod, demand, operands, results>>

----------------------------------------------------------------------------
(* Bounds of the model *)

\* A Queue holds at most this many items.
MaxQueueItems == 2
\* Width in bits of the model's signed integers (the code's are int64).
IntBits == 13
\* Largest replica count of a pod set.
MaxCount == 2
\* Most regular containers of a pod.
MaxContainers == 2

----------------------------------------------------------------------------
(* Go arithmetic *)

\* Go's integer division truncates toward zero.
GoDiv(a, b) ==
    IF a >= 0 THEN a \div b ELSE -((-a) \div b)

\* A signed integer of IntBits bits: arithmetic wraps around.
WrapInt(x) ==
    LET m == 2 ^ IntBits
        r == x % m
    IN IF r >= m \div 2 THEN r - m ELSE r

max(v1, v2) ==
    IF v1 > v2 THEN v1 ELSE v2

----------------------------------------------------------------------------
(* pkg/workload: resource requests.  A resource.Quantity is modelled by    *)
(* the number of milli-units it denotes ("100m" is 100, "2" is 2000).      *)

ResourceCPU == "cpu"
ResourceMemory == "memory"

\* Quantity.MilliValue for CPU, Quantity.Value (rounded up to a unit) otherwise.
ResourceValue(name, quant) ==
    IF name = ResourceCPU THEN quant ELSE (quant + 999) \div 1000

\* A missing key of a Go map reads as the zero value.
Get(r, name) ==
    IF name \in DOMAIN r THEN r[name] ELSE 0

EmptyRequests == [n \in {} |-> 0]

newRequests(rl) ==
    [name \in DOMAIN rl |-> ResourceValue(name, rl[name])]

add(r, o) ==
    [name \in DOMAIN r \cup DOMAIN o |->
        IF name \in DOMAIN o THEN WrapInt(Get(r, name) + o[name]) ELSE r[name]]

\* setMax adding instead of taking the larger.
setMaxAdds(r, o) ==
    [name \in DOMAIN r \cup DOMAIN o |->
        IF name \in DOMAIN o THEN WrapInt(Get(r, name) + o[name]) ELSE r[name]]

setMax(r, o) ==
    [name \in DOMAIN r \cup DOMAIN o |->
        IF name \in DOMAIN o THEN max(Get(r, name), o[name]) ELSE r[name]]

scale(r, f) ==
    [name \in DOMAIN r |-> WrapInt(r[name] * f)]

RECURSIVE addContainers(_, _)
addContainers(res, cs) ==
    IF cs = <<>> THEN res
    ELSE addContainers(add(res, newRequests(Head(cs))), Tail(cs))

RECURSIVE setMaxInitContainers(_, _)
setMaxInitContainers(res, cs) ==
    IF cs = <<>> THEN res
    ELSE setMaxInitContainers(setMax(res, newRequests(Head(cs))), Tail(cs))

\* podRequests adding the overhead before the init containers are merged.
podRequestsOverheadFirst(spec) ==
    LET res1 == addContainers(EmptyRequests, spec.Containers)
        res2 == add(res1, newRequests(spec.Overhead))
    IN setMaxInitContainers(res2, spec.InitContainers)

podRequests(spec) ==
    LET res1 == addContainers(EmptyRequests, spec.Containers)
        res2 == setMaxInitContainers(res1, spec.InitContainers)
    IN add(res2, newRequests(spec.Overhead))

\* spec.Admission.PodSetFlavors as the map name -> flavors the code builds:
\* a later entry of the same name replaces an earlier one.
RECURSIVE podSetFlavorsOf(_, _)
podSetFlavorsOf(m, psf) ==
    IF psf = <<>> THEN m
    ELSE podSetFlavorsOf((Head(psf).Name :> Head(psf).Flavors) @@ m, Tail(psf))

podSetResources(ps, podSetFlavors) ==
    LET flavors == IF ps.Name \in DOMAIN podSetFlavors
                   THEN podSetFlavors[ps.Name] ELSE <<>>
    IN [Name     |-> ps.Name,
        Requests |-> scale(podRequests(ps.Spec), ps.Count),
        Flavors  |-> flavors]

totalRequests(spec) ==
    LET podSetFlavors ==
            IF spec.Admission = <<>> THEN <<>>
            ELSE podSetFlavorsOf(<<>>, spec.Admission[1].PodSetFlavors)
    IN [i \in 1..Len(spec.PodSets) |-> podSetResources(spec.PodSets[i], podSetFlavors)]

NewInfo(w) ==
    [Obj |-> w, TotalRequests |-> totalRequests(w.Spec), ClusterQueue |-> ""]

\* Key made of the name alone.
KeyNameOnly(w) ==
    w.Name

Key(w) ==
    w.Namespace \o "/" \o w.Name

\* utilpriority.Priority: the workload's numeric priority.
Priority(w) ==
    w.Spec.Priority

----------------------------------------------------------------------------
(* pkg/queue: the comparator and the indexed heap *)

StrictFIFO == "StrictFIFO"

\* strictFIFO putting a workload of equal priority first unless it was created later.
strictFIFONotLater(a, b) ==
    LET p1 == Priority(a.Obj)
        p2 == Priority(b.Obj)
    IN IF p1 # p2 THEN p1 > p2
       ELSE ~(b.Obj.CreationTimestamp < a.Obj.CreationTimestamp)

\* strictFIFO without the creation timestamp.
strictFIFOPriorityOnly(a, b) ==
    Priority(a.Obj) > Priority(b.Obj)

strictFIFO(a, b) ==
    LET p1 == Priority(a.Obj)
        p2 == Priority(b.Obj)
    IN IF p1 # p2 THEN p1 > p2
       ELSE a.Obj.CreationTimestamp < b.Obj.CreationTimestamp

\* A lessFunc value is modelled by the name of the function it holds.
lessFunc(f, a, b) ==
    IF f = "strictFIFO" THEN strictFIFO(a, b) ELSE FALSE

hLen(h) ==
    Len(h.heap)

hLess(h, i, j) ==
    LET a == h.items[h.heap[i + 1]]
        b == h.items[h.heap[j + 1]]
    IN lessFunc(h.less, a.obj, b.obj)

hSwap(h, i, j) ==
    LET hp == [h.heap EXCEPT ![i + 1] = h.heap[j + 1], ![j + 1] = h.heap[i + 1]]
        it1 == [h.items EXCEPT ![hp[i + 1]].index = i]
        it2 == [it1 EXCEPT ![hp[j + 1]].index = j]
    IN [h EXCEPT !.heap = hp, !.items = it2]

\* Push recording the length after the append as the index of the new item.
hPushIndexPastEnd(h, wInfo) ==
    LET key == Key(wInfo.Obj)
    IN [h EXCEPT !.items = (key :> [obj |-> wInfo, index |-> Len(h.heap) + 1]) @@ h.items,
                 !.heap = Append(h.heap, key)]

hPush(h, wInfo) ==
    LET key == Key(wInfo.Obj)
    IN [h EXCEPT !.items = (key :> [obj |-> wInfo, index |-> Len(h.heap)]) @@ h.items,
                 !.heap = Append(h.heap, key)]

\* Pop without the delete of the key from items.
hPopKeepsItem(h) ==
    LET n == Len(h.heap)
        key == h.heap[n]
    IN [h   |-> [h EXCEPT !.heap = SubSeq(h.heap, 1, n - 1)],
        obj |-> h.items[key].obj]

hPop(h) ==
    LET n == Len(h.heap)
        key == h.heap[n]
    IN [h   |-> [h EXCEPT !.heap = SubSeq(h.heap, 1, n - 1),
                          !.items = [k \in DOMAIN h.items \ {key} |-> h.items[k]]],
        obj |-> h.items[key].obj]

\* container/heap (the Go standard library the code calls)

RECURSIVE up(_, _)
up(h, j) ==
    LET i == GoDiv(j - 1, 2)
    IN IF i = j \/ ~hLess(h, j, i) THEN h
       ELSE up(hSwap(h, i, j), i)

RECURSIVE downLoop(_, _, _)
downLoop(h, i, n) ==
    LET j1 == 2 * i + 1
        j2 == j1 + 1
        j  == IF j2 < n /\ hLess(h, j2, j1) THEN j2 ELSE j1
    IN IF j1 >= n \/ j1 < 0 THEN [h |-> h, i |-> i]
       ELSE IF ~hLess(h, j, i) THEN [h |-> h, i |-> i]
       ELSE downLoop(hSwap(h, i, j), j, n)

down(h, i0, n) ==
    LET r == downLoop(h, i0, n)
    IN [h |-> r.h, moved |-> r.i > i0]

heapPush(h, x) ==
    LET h1 == hPush(h, x)
    IN up(h1, hLen(h1) - 1)

heapPop(h) ==
    LET n == hLen(h) - 1
    IN hPop(down(hSwap(h, 0, n), 0, n).h)

heapRemove(h, i) ==
    LET n == hLen(h) - 1
        h1 == hSwap(h, i, n)
        d == down(h1, i, n)
    IN IF n # i
       THEN hPop(IF d.moved THEN d.h ELSE up(d.h, i))
       ELSE hPop(h)

heapFix(h, i) ==
    LET d == down(h, i, hLen(h))
    IN IF d.moved THEN d.h ELSE up(d.h, i)

----------------------------------------------------------------------------
(* pkg/queue: Queue *)

newQueue(apiQueue) ==
    [ClusterQueue |-> apiQueue.Spec.ClusterQueue, items |-> <<>>]

\* Queue.AddOrUpdate leaving an Info already stored as it is.
QueueAddOrUpdateKeepsStored(qu, w) ==
    LET key == Key(w)
    IN IF key \in DOMAIN qu.items
       THEN qu
       ELSE [qu EXCEPT !.items = (key :> NewInfo(w)) @@ qu.items]

\* Queue.AddOrUpdate: an Info already stored gets the new object and nothing
\* else; an absent key gets a fresh Info.
QueueAddOrUpdate(qu, w) ==
    LET key == Key(w)
    IN IF key \in DOMAIN qu.items
       THEN [qu EXCEPT !.items[key].Obj = w]
       ELSE [qu EXCEPT !.items = (key :> NewInfo(w)) @@ qu.items]

----------------------------------------------------------------------------
(* pkg/queue: ClusterQueue *)

update(c, apiCQ) ==
    [c EXCEPT !.QueueingStrategy = apiCQ.Spec.QueueingStrategy]

\* newClusterQueue taking strictFIFO in the default case of its switch.
newClusterQueueAnyStrategy(apiCQ) ==
    [cq  |-> <<update([QueueingStrategy |-> "",
                       heap |-> [less |-> "strictFIFO", items |-> <<>>, heap |-> <<>>]],
                      apiCQ)>>,
     err |-> ""]

\* The result is the pair (pointer, error): cq is <<>> for a nil pointer, err
\* is "" for a nil error.
newClusterQueue(apiCQ) ==
    IF apiCQ.Spec.QueueingStrategy = StrictFIFO
    THEN [cq  |-> <<update([QueueingStrategy |-> "",
                            heap |-> [less |-> "strictFIFO", items |-> <<>>, heap |-> <<>>]],
                           apiCQ)>>,
          err |-> ""]
    ELSE [cq |-> <<>>, err |-> "invalid QueueingStrategy"]

\* PushIfNotPresent replacing the value of a key that is present.
PushIfNotPresentReplaces(c, info) ==
    IF Key(info.Obj) \in DOMAIN c.heap.items
    THEN [cq |-> [c EXCEPT !.heap = heapFix([c.heap EXCEPT !.items[Key(info.Obj)].obj = info],
                                            c.heap.items[Key(info.Obj)].index)],
          ok |-> FALSE]
    ELSE [cq |-> [c EXCEPT !.heap = heapPush(c.heap, info)], ok |-> TRUE]

PushIfNotPresent(c, info) ==
    IF Key(info.Obj) \in DOMAIN c.heap.items
    THEN [cq |-> c, ok |-> FALSE]
    ELSE [cq |-> [c EXCEPT !.heap = heapPush(c.heap, info)], ok |-> TRUE]

\* PushOrUpdate without the heap.Fix after the value is replaced.
PushOrUpdateNoFix(c, w) ==
    LET key == Key(w)
        info == NewInfo(w)
    IN IF key \notin DOMAIN c.heap.items
       THEN [c EXCEPT !.heap = heapPush(c.heap, info)]
       ELSE [c EXCEPT !.heap.items[key].obj = info]

\* PushOrUpdate keeping the value stored under a key that is present.
PushOrUpdateKeepsValue(c, w) ==
    LET key == Key(w)
        info == NewInfo(w)
    IN IF key \notin DOMAIN c.heap.items
       THEN [c EXCEPT !.heap = heapPush(c.heap, info)]
       ELSE [c EXCEPT !.heap = heapFix(c.heap, c.heap.items[key].index)]

PushOrUpdate(c, w) ==
    LET key == Key(w)
        info == NewInfo(w)
    IN IF key \notin DOMAIN c.heap.items
       THEN [c EXCEPT !.heap = heapPush(c.heap, info)]
       ELSE [c EXCEPT !.heap = heapFix([c.heap EXCEPT !.items[key].obj = info],
                                       c.heap.items[key].index)]

\* Delete removing the head, whichever workload is named.
DeleteHead(c, w) ==
    IF hLen(c.heap) = 0
    THEN c
    ELSE [c EXCEPT !.heap = heapRemove(c.heap, 0).h]

Delete(c, w) ==
    LET key == Key(w)
    IN IF key \in DOMAIN c.heap.items
       THEN [c EXCEPT !.heap = heapRemove(c.heap, c.heap.items[key].index).h]
       ELSE c

\* Pop returning the head without removing it.
PopPeeks(c) ==
    IF hLen(c.heap) = 0
    THEN [cq |-> c, val |-> {}]
    ELSE [cq |-> c, val |-> {c.heap.items[c.heap.heap[1]].obj}]

\* The result is the pair (ClusterQueue afterwards, Info returned): val is {}
\* for a nil result.
Pop(c) ==
    IF hLen(c.heap) = 0
    THEN [cq |-> c, val |-> {}]
    ELSE LET r == heapPop(c.heap)
         IN [cq |-> [c EXCEPT !.heap = r.h], val |-> {r.obj}]

\* Go ranges over a map in an order it does not fix: order is the sequence of
\* the keys of q.items as one run visits them.
\* AddFromQueue returning what the last PushIfNotPresent returned.
RECURSIVE AddFromQueueLastOnly(_, _, _)
AddFromQueueLastOnly(c, qu, order) ==
    IF order = <<>> THEN [cq |-> c, ok |-> FALSE]
    ELSE LET r == PushIfNotPresent(c, qu.items[Head(order)])
             rest == AddFromQueueLastOnly(r.cq, qu, Tail(order))
         IN [cq |-> rest.cq, ok |-> IF Tail(order) = <<>> THEN r.ok ELSE rest.ok]

RECURSIVE AddFromQueue(_, _, _)
AddFromQueue(c, qu, order) ==
    IF order = <<>> THEN [cq |-> c, ok |-> FALSE]
    ELSE LET r == PushIfNotPresent(c, qu.items[Head(order)])
             rest == AddFromQueue(r.cq, qu, Tail(order))
         IN [cq |-> rest.cq, ok |-> r.ok \/ rest.ok]

\* DeleteFromQueue stopping after the first item of the Queue.
DeleteFromQueueFirstOnly(c, qu, order) ==
    IF order = <<>> THEN c
    ELSE Delete(c, qu.items[Head(order)].Obj)

RECURSIVE DeleteFromQueue(_, _, _)
DeleteFromQueue(c, qu, order) ==
    IF order = <<>> THEN c
    ELSE DeleteFromQueue(Delete(c, qu.items[Head(order)].Obj), qu, Tail(order))

\* The orders in which a range over a map with key set S may visit it.
RangeOrders(S) ==
    {o \in [1..Cardinality(S) -> S] : \A i, j \in 1..Cardinality(S) : o[i] = o[j] => i = j}

----------------------------------------------------------------------------
(* The objects the callers pass in *)

QueueingStrategies == {StrictFIFO, "", "BestEffortFIFO"}

MakeClusterQueue(strategy) ==
    [Spec |-> [QueueingStrategy |-> strategy]]

MakeQueuedWorkload(ns, name, prio, created, podSets) ==
    [Namespace |-> ns, Name |-> name, CreationTimestamp |-> created,
     Spec |-> [Priority |-> prio, PodSets |-> podSets, Admission |-> <<>>]]

MakePodSet(name, containers, initContainers, overhead, count) ==
    [Name |-> name, Count |-> count,
     Spec |-> [Containers |-> containers, InitContainers |-> initContainers,
               Overhead |-> overhead]]

\* Request(corev1.ResourceCPU, "2") of the test's workloads.
OnePodSet == <<MakePodSet("main", <<(ResourceCPU :> 2000)>>, <<>>, <<>>, 1)>>

Names == {"a", "b", "c", "d"}
\* The priorities each workload takes over its life.
PrioritiesOf == ("a" :> {5, 9}) @@ ("b" :> {5, 9}) @@ ("c" :> {3, 5}) @@ ("d" :> {3, 9})
\* The creation timestamp of an object does not change while it exists.
CreatedAt == ("a" :> 1) @@ ("b" :> 2) @@ ("c" :> 1) @@ ("d" :> 2)

\* The same request in two replicas.
TwoReplicas == <<MakePodSet("main", <<(ResourceCPU :> 2000)>>, <<>>, <<>>, 2)>>

WorkloadsWith(podSetsChoices) ==
    UNION {{MakeQueuedWorkload("ns", n, p, CreatedAt[n], ps) :
                p \in PrioritiesOf[n], ps \in podSetsChoices}
           : n \in Names}

\* The workloads passed to the calls on a ClusterQueue fed by a Queue.
Workloads == WorkloadsWith({OnePodSet})

\* The workloads of the Queue: those of ns/d belong to another Queue of the
\* same ClusterQueue.
QueueWorkloads == {w \in Workloads : w.Name \in {"a", "b", "c"}}

\* The workloads passed to the calls on a ClusterQueue alone.
IndexWorkloads == WorkloadsWith({OnePodSet, TwoReplicas})

\* The pod sets whose demand is calculated.
ContainerRequests ==
    {(ResourceCPU :> 100), (ResourceCPU :> 200),
     (ResourceCPU :> 100) @@ (ResourceMemory :> 1500)}
InitContainerRequests ==
    {(ResourceCPU :> 500), (ResourceCPU :> 150), (ResourceMemory :> 2500)}
Overheads == {<<>>, (ResourceCPU :> 50), (ResourceMemory :> 500)}

SeqsUpTo(S, n) == UNION {[1..k -> S] : k \in 0..n}

PodSetInputs ==
    {MakePodSet("main", cs, ics, ov, n) :
        cs \in SeqsUpTo(ContainerRequests, MaxContainers),
        ics \in SeqsUpTo(InitContainerRequests, 1),
        ov \in Overheads,
        n \in 1..MaxCount}

----------------------------------------------------------------------------
(* The calls on one ClusterQueue and one Queue *)

Called(op, ok, val) ==
    [op |-> op, ok |-> ok, val |-> val]

NoPod == MakePodSet("", <<>>, <<>>, <<>>, 0)

CallQueueAddOrUpdate(w) ==
    /\ Key(w) \in DOMAIN q.items \/ Cardinality(DOMAIN q.items) < MaxQueueItems
    /\ q' = QueueAddOrUpdate(q, w)
    /\ last' = Called("AddOrUpdate", TRUE, {})
    /\ UNCHANGED <<cq, cqErr, pod, demand, operands, results>>

CallPushIfNotPresent(info) ==
    /\ cq # <<>>
    /\ LET r == PushIfNotPresent(cq[1], info)
       IN /\ cq' = <<r.cq>>
          /\ last' = Called("PushIfNotPresent", r.ok, {})
    /\ UNCHANGED <<cqErr, q, pod, demand, operands, results>>

CallPushOrUpdate(w) ==
    /\ cq # <<>>
    /\ cq' = <<PushOrUpdate(cq[1], w)>>
    /\ last' = Called("PushOrUpdate", TRUE, {})
    /\ UNCHANGED <<cqErr, q, pod, demand, operands, results>>

CallDelete(w) ==
    /\ cq # <<>>
    /\ cq' = <<Delete(cq[1], w)>>
    /\ last' = Called("Delete", TRUE, {})
    /\ UNCHANGED <<cqErr, q, pod, demand, operands, results>>

CallPop ==
    /\ cq # <<>>
    /\ LET r == Pop(cq[1])
       IN /\ cq' = <<r.cq>>
          /\ last' = Called("Pop", r.val # {}, r.val)
    /\ UNCHANGED <<cqErr, q, pod, demand, operands, results>>

CallAddFromQueue(order) ==
    /\ cq # <<>>
    /\ LET r == AddFromQueue(cq[1], q, order)
       IN /\ cq' = <<r.cq>>
          /\ last' = Called("AddFromQueue", r.ok, {})
    /\ UNCHANGED <<cqErr, q, pod, demand, operands, results>>

CallDeleteFromQueue(order) ==
    /\ cq # <<>>
    /\ cq' = <<DeleteFromQueue(cq[1], q, order)>>
    /\ last' = Called("DeleteFromQueue", TRUE, {})
    /\ UNCHANGED <<cqErr, q, pod, demand, operands, results>>

Init ==
    /\ cq = newClusterQueue(MakeClusterQueue(StrictFIFO)).cq
    /\ cqErr = newClusterQueue(MakeClusterQueue(StrictFIFO)).err
    /\ q = newQueue([Spec |-> [ClusterQueue |-> "cq"]])
    /\ last = Called("newClusterQueue", TRUE, {})
    /\ pod = NoPod
    /\ demand = <<>>
    /\ operands = <<>>
    /\ results = <<>>

Next ==
    \/ \E w \in QueueWorkloads : CallQueueAddOrUpdate(w)
    \/ \E w \in Workloads : CallPushIfNotPresent(NewInfo(w))
    \/ \E w \in Workloads : CallPushOrUpdate(w)
    \/ \E w \in Workloads : CallDelete(w)
    \/ CallPop
    \/ \E order \in RangeOrders(DOMAIN q.items) : CallAddFromQueue(order)
    \/ \E order \in RangeOrders(DOMAIN q.items) : CallDeleteFromQueue(order)

Spec == Init /\ [][Next]_vars

(* The calls on a ClusterQueue alone *)

NextIndex ==
    \/ \E w \in IndexWorkloads : CallPushIfNotPresent(NewInfo(w))
    \/ \E w \in IndexWorkloads : CallPushOrUpdate(w)
    \/ \E w \in IndexWorkloads : CallDelete(w)
    \/ CallPop

SpecIndex == Init /\ [][NextIndex]_vars

(* Construction and update of a ClusterQueue *)

CallNewClusterQueue(strategy) ==
    /\ cq = <<>>
    /\ LET r == newClusterQueue(MakeClusterQueue(strategy))
       IN /\ cq' = r.cq
          /\ cqErr' = r.err
          /\ last' = Called("newClusterQueue", r.err = "", {})
    /\ UNCHANGED <<q, pod, demand, operands, results>>

CallUpdate(strategy) ==
    /\ cq # <<>>
    /\ cq' = <<update(cq[1], MakeClusterQueue(strategy))>>
    /\ last' = Called("update", TRUE, {})
    /\ UNCHANGED <<cqErr, q, pod, demand, operands, results>>

InitLifecycle ==
    /\ cq = <<>>
    /\ cqErr = ""
    /\ q = newQueue([Spec |-> [ClusterQueue |-> "cq"]])
    /\ last = Called("", FALSE, {})
    /\ pod = NoPod
    /\ demand = <<>>
    /\ operands = <<>>
    /\ results = <<>>

NextLifecycle ==
    \/ \E s \in QueueingStrategies : CallNewClusterQueue(s)
    \/ \E s \in QueueingStrategies : CallUpdate(s)
    \/ \E w \in Workloads : CallPushOrUpdate(w)
    \/ CallPop

SpecLifecycle == InitLifecycle /\ [][NextLifecycle]_vars

(* The demand calculation of one pod set *)

CallTotalRequests ==
    /\ demand = <<>>
    /\ demand' = totalRequests([Priority |-> 0, PodSets |-> <<pod>>, Admission |-> <<>>])
    /\ UNCHANGED <<cq, cqErr, q, last, pod, operands, results>>

InitDemand ==
    /\ cq = <<>>
    /\ cqErr = ""
    /\ q = newQueue([Spec |-> [ClusterQueue |-> "cq"]])
    /\ last = Called("", FALSE, {})
    /\ pod \in PodSetInputs
    /\ demand = <<>>
    /\ operands = <<>>
    /\ results = <<>>

NextDemand == CallTotalRequests

SpecDemand == InitDemand /\ [][NextDemand]_vars

(* A Queue whose workloads are given new pod sets, and its ClusterQueue *)

\* The workloads of the Queue, each in two definitions that differ in the
\* replicas of their pod set.
RedefinedWorkloads == {w \in IndexWorkloads : w.Name \in {"a", "b"}}

NextQueue ==
    \/ \E w \in RedefinedWorkloads : CallQueueAddOrUpdate(w)
    \/ \E w \in RedefinedWorkloads : CallPushIfNotPresent(NewInfo(w))
    \/ \E w \in RedefinedWorkloads : CallPushOrUpdate(w)
    \/ \E order \in RangeOrders(DOMAIN q.items) : CallAddFromQueue(order)

SpecQueue == Init /\ [][NextQueue]_vars

(* The keys of two workloads *)

\* Namespaces and names of the workloads whose keys are compared; some
\* contain the separator of the key.
PlainNamespaces == {"a", "b"}
KeyNamespaces == PlainNamespaces \cup {"a/b"}
KeyNames == {"b", "c", "b/c"}

KeyWorkloads ==
    {MakeQueuedWorkload(ns, n, 5, 1, OnePodSet) : ns \in KeyNamespaces, n \in KeyNames}

CallKey ==
    /\ results = <<>>
    /\ operands # <<>>
    /\ results' = <<Key(operands[1]), Key(operands[2])>>
    /\ UNCHANGED <<cq, cqErr, q, last, pod, demand, operands>>

InitKey ==
    /\ cq = <<>>
    /\ cqErr = ""
    /\ q = newQueue([Spec |-> [ClusterQueue |-> "cq"]])
    /\ last = Called("", FALSE, {})
    /\ pod = NoPod
    /\ demand = <<>>
    /\ operands \in KeyWorkloads \X KeyWorkloads
    /\ results = <<>>

NextKey == CallKey

SpecKey == InitKey /\ [][NextKey]_vars

(* A ClusterQueue and the workload objects its caller holds *)

\* Info.Obj is a pointer: the Info that heap.Push or PushOrUpdate copies into
\* the index still points at the caller's workload object, so what the caller
\* writes into that object shows in every index entry pointing at it.
WriteThrough(c, w) ==
    [c EXCEPT !.heap.items =
        [k \in DOMAIN @ |-> IF k = Key(w) THEN [@[k] EXCEPT !.obj.Obj = w] ELSE @[k]]]

\* The caller holds one workload object per name and passes pointers to them.
HeldNames == {"a", "b", "c"}
HeldPriorities == {3, 5, 9}

\* The caller assigns a priority to the workload object it holds under name n.
CallSetPriority(n, p) ==
    /\ cq # <<>>
    /\ operands[n].Spec.Priority # p
    /\ operands' = [operands EXCEPT ![n].Spec.Priority = p]
    /\ cq' = <<WriteThrough(cq[1], operands'[n])>>
    /\ last' = Called("SetPriority", TRUE, {})
    /\ UNCHANGED <<cqErr, q, pod, demand, results>>

InitAlias ==
    /\ cq = newClusterQueue(MakeClusterQueue(StrictFIFO)).cq
    /\ cqErr = newClusterQueue(MakeClusterQueue(StrictFIFO)).err
    /\ q = newQueue([Spec |-> [ClusterQueue |-> "cq"]])
    /\ last = Called("newClusterQueue", TRUE, {})
    /\ pod = NoPod
    /\ demand = <<>>
    /\ operands = [n \in HeldNames |-> MakeQueuedWorkload("ns", n, 5, CreatedAt[n], OnePodSet)]
    /\ results = <<>>

NextAlias ==
    \/ \E n \in HeldNames : CallPushIfNotPresent(NewInfo(operands[n]))
    \/ \E n \in HeldNames : CallPushOrUpdate(operands[n])
    \/ CallPop
    \/ \E n \in HeldNames, p \in HeldPriorities : CallSetPriority(n, p)

SpecAlias == InitAlias /\ [][NextAlias]_vars

(* The demand calculation at the edge of the integer range *)

\* A quantity that fits the integer while twice of it does not.
HalfRange == 2 ^ (IntBits - 2)

LargeRequests ==
    {(ResourceCPU :> 100), (ResourceCPU :> HalfRange), (ResourceMemory :> 1000 * HalfRange)}

LargePodSetInputs ==
    {MakePodSet("main", cs, ics, ov, n) :
        cs \in SeqsUpTo(LargeRequests, MaxContainers),
        ics \in SeqsUpTo({(ResourceCPU :> HalfRange)}, 1),
        ov \in {<<>>, (ResourceCPU :> HalfRange)},
        n \in 0..MaxCount}

InitOverflow ==
    /\ cq = <<>>
    /\ cqErr = ""
    /\ q = newQueue([Spec |-> [ClusterQueue |-> "cq"]])
    /\ last = Called("", FALSE, {})
    /\ pod \in LargePodSetInputs
    /\ demand = <<>>
    /\ operands = <<>>
    /\ results = <<>>

SpecOverflow == InitOverflow /\ [][NextDemand]_vars

(* The comparator on three Infos *)

OrderPriorities == {3, 5, 9}
OrderCreations == {1, 2}

OrderInfos ==
    {NewInfo(MakeQueuedWorkload("ns", "w", p, t, OnePodSet)) :
        p \in OrderPriorities, t \in OrderCreations}

\* strictFIFO applied to every pair of the three operands.
CallStrictFIFO ==
    /\ results = <<>>
    /\ operands # <<>>
    /\ results' = [i \in 1..3 |-> [j \in 1..3 |-> strictFIFO(operands[i], operands[j])]]
    /\ UNCHANGED <<cq, cqErr, q, last, pod, demand, operands>>

InitOrder ==
    /\ cq = <<>>
    /\ cqErr = ""
    /\ q = newQueue([Spec |-> [ClusterQueue |-> "cq"]])
    /\ last = Called("", FALSE, {})
    /\ pod = NoPod
    /\ demand = <<>>
    /\ operands \in OrderInfos \X OrderInfos \X OrderInfos
    /\ results = <<>>

NextOrder == CallStrictFIFO

SpecOrder == InitOrder /\ [][NextOrder]_vars

----------------------------------------------------------------------------
(* What the properties below read *)

\* The heap of the ClusterQueue.
H == cq[1].heap

\* The Infos a ClusterQueue's index stores.
Entries(c) == {c.heap.items[k].obj : k \in DOMAIN c.heap.items}

\* The Info at position i (0-based) of the backing sequence.
EntryAt(h, i) == h.items[h.heap[i + 1]].obj

\* The order of the strict-FIFO strategy as the specification words it: higher
\* priority first, then strictly earlier creation.
SortsBefore(a, b) ==
    \/ a.Obj.Spec.Priority > b.Obj.Spec.Priority
    \/ /\ a.Obj.Spec.Priority = b.Obj.Spec.Priority
       /\ a.Obj.CreationTimestamp < b.Obj.CreationTimestamp

HeapOrdered(h) ==
    \A i \in 1..(hLen(h) - 1) :
        ~lessFunc(h.less, EntryAt(h, i), EntryAt(h, GoDiv(i - 1, 2)))

\* How many positions of the backing sequence hold key.
Positions(h, key) == Cardinality({i \in 1..Len(h.heap) : h.heap[i] = key})

\* Every entry of c other than that of key is an entry of d with the same value.
OthersKept(c, d, key) ==
    \A k \in DOMAIN c.heap.items \ {key} :
        k \in DOMAIN d.heap.items /\ d.heap.items[k].obj = c.heap.items[k].obj

\* The workloads of the pop-order example: priorities 5, 5, 3 and 9, the first
\* priority-5 workload created before the second.
Example5Early == NewInfo(MakeQueuedWorkload("ns", "a", 5, CreatedAt["a"], OnePodSet))
Example5Late == NewInfo(MakeQueuedWorkload("ns", "b", 5, CreatedAt["b"], OnePodSet))
Example3 == NewInfo(MakeQueuedWorkload("ns", "c", 3, CreatedAt["c"], OnePodSet))
Example9 == NewInfo(MakeQueuedWorkload("ns", "d", 9, CreatedAt["d"], OnePodSet))

----------------------------------------------------------------------------
(* Properties *)

\* C1: heap invariant.  In every state reached by PushIfNotPresent,
\* PushOrUpdate (insert and update), Delete, Pop, AddFromQueue and
\* DeleteFromQueue, no entry at a non-root position i sorts before the entry at
\* its parent position (i-1)/2 under the heap's less.
C1_HeapInvariant ==
    cq # <<>> => HeapOrdered(H)

\* C1 witness: a Delete has left three entries, one of them strictly after its
\* parent.
C1_Witness ==
    /\ last.op = "Delete"
    /\ hLen(H) = 3
    /\ \E i \in 1..2 : lessFunc(H.less, EntryAt(H, 0), EntryAt(H, i))

\* C2: pop order.  A Pop on a non-empty ClusterQueue removes and returns an
\* entry of the index that no remaining entry sorts strictly before; so from
\* the entries with priorities 5, 5, 3 and 9 successive Pops return priority 9,
\* the earlier priority-5 workload, the later one, then priority 3, however the
\* entries were inserted.
C2_PopOrder ==
    [][(CallPop /\ hLen(H) > 0) =>
        \E e \in last'.val :
            /\ last'.val = {e}
            /\ e \in Entries(cq[1])
            /\ Entries(cq'[1]) = Entries(cq[1]) \ {e}
            /\ \A r \in Entries(cq'[1]) : ~SortsBefore(r, e)
            /\ Entries(cq[1]) = {Example5Early, Example5Late, Example3, Example9}
                  => e = Example9
            /\ Entries(cq[1]) = {Example5Early, Example5Late, Example3}
                  => e = Example5Early
            /\ Entries(cq[1]) = {Example5Late, Example3} => e = Example5Late
            /\ Entries(cq[1]) = {Example3} => e = Example3
      ]_vars

\* C2 witness: the first Pop of the example has returned the priority-9
\* workload and left the other three.
C2_Witness ==
    /\ last.op = "Pop"
    /\ last.val = {Example9}
    /\ Entries(cq[1]) = {Example5Early, Example5Late, Example3}

\* C3: PushIfNotPresent(info) on a present key returns false and leaves the
\* whole index as it was, whatever info holds; on an absent key it returns true
\* and the index holds the previous entries plus info.
C3_PushIfNotPresent ==
    [][\A w \in IndexWorkloads :
        (last'.op = "PushIfNotPresent" /\ CallPushIfNotPresent(NewInfo(w))) =>
            IF Key(w) \in DOMAIN H.items
            THEN ~last'.ok /\ cq' = cq
            ELSE /\ last'.ok
                 /\ Entries(cq'[1]) = Entries(cq[1]) \cup {NewInfo(w)}
                 /\ hLen(cq'[1].heap) = hLen(H) + 1
                 /\ OthersKept(cq[1], cq'[1], Key(w))
      ]_vars

\* C3 witness: a PushIfNotPresent has returned false on an index of two or
\* more entries.
C3_Witness ==
    /\ last.op = "PushIfNotPresent"
    /\ ~last.ok
    /\ hLen(H) >= 2

\* C4: PushOrUpdate(w) leaves exactly one entry for w's key, holding the Info
\* computed from w; the size grows by one if the key was absent and is
\* unchanged otherwise; every other entry keeps its value; the heap order holds
\* afterwards, so an entry raised above all others is what the next Pop returns.
C4_PushOrUpdate ==
    [][\A w \in IndexWorkloads :
        (last'.op = "PushOrUpdate" /\ CallPushOrUpdate(w)) =>
            LET key == Key(w)
                h2 == cq'[1].heap
            IN /\ key \in DOMAIN h2.items
               /\ Positions(h2, key) = 1
               /\ h2.items[key].obj = NewInfo(w)
               /\ hLen(h2) = IF key \in DOMAIN H.items THEN hLen(H) ELSE hLen(H) + 1
               /\ DOMAIN h2.items = DOMAIN H.items \cup {key}
               /\ OthersKept(cq[1], cq'[1], key)
               /\ HeapOrdered(h2)
               /\ (\A r \in Entries(cq'[1]) \ {NewInfo(w)} : SortsBefore(NewInfo(w), r))
                     => Pop(cq'[1]).val = {NewInfo(w)}
      ]_vars

\* C4 witness: a PushOrUpdate has left four entries, the root strictly before
\* every other one.
C4_Witness ==
    /\ last.op = "PushOrUpdate"
    /\ hLen(H) = 4
    /\ \A i \in 1..3 : SortsBefore(EntryAt(H, 0), EntryAt(H, i))

\* C5: Delete(w) removes the entry of w's key when it is present, wherever it
\* sits, the size going down by one and every other entry staying with its
\* value; when the key is absent the index is left as it was.
C5_Delete ==
    [][\A w \in IndexWorkloads :
        (last'.op = "Delete" /\ CallDelete(w)) =>
            IF Key(w) \in DOMAIN H.items
            THEN /\ DOMAIN cq'[1].heap.items = DOMAIN H.items \ {Key(w)}
                 /\ hLen(cq'[1].heap) = hLen(H) - 1
                 /\ Positions(cq'[1].heap, Key(w)) = 0
                 /\ OthersKept(cq[1], cq'[1], Key(w))
            ELSE cq' = cq
      ]_vars

\* C5 witness: a Delete has removed the entry ns/c from an index of four and
\* left the other three.
C5_Witness ==
    /\ last.op = "Delete"
    /\ hLen(H) = 3
    /\ DOMAIN H.items = {"ns/a", "ns/b", "ns/d"}

\* C6: Pop on an index with no entries returns nil and leaves the index empty;
\* on an index with entries it returns an Info, the size goes down by one and
\* the returned key is no longer a member.
C6_PopEmpty ==
    [][CallPop =>
        IF hLen(H) = 0
        THEN last'.val = {} /\ ~last'.ok /\ cq' = cq
        ELSE /\ last'.ok
             /\ hLen(cq'[1].heap) = hLen(H) - 1
             /\ \E e \in last'.val :
                    /\ last'.val = {e}
                    /\ Key(e.Obj) \in DOMAIN H.items
                    /\ Key(e.Obj) \notin DOMAIN cq'[1].heap.items
                    /\ Positions(cq'[1].heap, Key(e.Obj)) = 0
      ]_vars

\* C6 witness: a Pop has returned nil on the empty index.
C6_Witness ==
    /\ last.op = "Pop"
    /\ last.val = {}
    /\ hLen(H) = 0
    /\ DOMAIN H.items = {}

\* C7: AddFromQueue(queue) returns false and leaves the index as it was when
\* every key of the Queue is present already (an empty Queue included);
\* otherwise it returns true, the size grows by the number of Queue items whose
\* keys were absent, and the entries present before keep their values.
C7_AddFromQueue ==
    [][\A order \in RangeOrders(DOMAIN q.items) :
        (last'.op = "AddFromQueue" /\ CallAddFromQueue(order)) =>
            LET absent == DOMAIN q.items \ DOMAIN H.items
            IN IF absent = {}
               THEN ~last'.ok /\ cq' = cq
               ELSE /\ last'.ok
                    /\ hLen(cq'[1].heap) = hLen(H) + Cardinality(absent)
                    /\ DOMAIN cq'[1].heap.items = DOMAIN H.items \cup absent
                    /\ \A k \in DOMAIN H.items :
                           cq'[1].heap.items[k].obj = H.items[k].obj
      ]_vars

\* C7 witness: an AddFromQueue has returned true with a Queue of two items, one
\* of them stored in the index with a value other than the Queue's.
C7_Witness ==
    /\ last.op = "AddFromQueue"
    /\ last.ok
    /\ Cardinality(DOMAIN q.items) = 2
    /\ hLen(H) = 4
    /\ \E k \in DOMAIN q.items : H.items[k].obj # q.items[k]

\* C8: newClusterQueue with a QueueingStrategy other than StrictFIFO (the empty
\* one included) returns an error and no ClusterQueue; with StrictFIFO it
\* returns no error and a ClusterQueue with an empty index, on which Pop
\* returns nil, ordered by the strict-FIFO order.
C8_Construction ==
    [][\A s \in QueueingStrategies :
        CallNewClusterQueue(s) =>
            IF s = StrictFIFO
            THEN /\ cqErr' = ""
                 /\ Len(cq') = 1
                 /\ cq'[1].QueueingStrategy = StrictFIFO
                 /\ hLen(cq'[1].heap) = 0
                 /\ DOMAIN cq'[1].heap.items = {}
                 /\ Pop(cq'[1]).val = {}
                 /\ \A w1, w2 \in Workloads :
                        lessFunc(cq'[1].heap.less, NewInfo(w1), NewInfo(w2))
                            <=> SortsBefore(NewInfo(w1), NewInfo(w2))
            ELSE cqErr' # "" /\ cq' = <<>>
      ]_vars

\* C8 witness: a construction has failed, leaving an error and no ClusterQueue.
C8_Witness ==
    /\ last.op = "newClusterQueue"
    /\ ~last.ok
    /\ cqErr # ""
    /\ cq = <<>>

\* C9: after construction and any updates, the QueueingStrategy a ClusterQueue
\* records is a recognized one and names the comparator its heap uses.
C9_StrategyValidated ==
    cq # <<>> =>
        /\ cq[1].QueueingStrategy = StrictFIFO
        /\ cq[1].heap.less = "strictFIFO"

\* The CPU milli-units of a resource list (0 when it names no CPU).
CpuOf(rl) == IF ResourceCPU \in DOMAIN rl THEN rl[ResourceCPU] ELSE 0

RECURSIVE CpuSum(_)
CpuSum(cs) == IF cs = <<>> THEN 0 ELSE CpuOf(Head(cs)) + CpuSum(Tail(cs))

RECURSIVE CpuPeak(_)
CpuPeak(cs) == IF cs = <<>> THEN 0 ELSE max(CpuOf(Head(cs)), CpuPeak(Tail(cs)))

\* The pod set of the aggregation example: containers of 100m and 200m, an
\* init container of 500m, overhead 50m, two replicas.
ExamplePod ==
    MakePodSet("main", <<(ResourceCPU :> 100), (ResourceCPU :> 200)>>,
               <<(ResourceCPU :> 500)>>, (ResourceCPU :> 50), 2)

\* A pod set that names CPU in a container, an init container or the overhead.
NamesCpu(ps) ==
    \/ \E i \in 1..Len(ps.Spec.Containers) : ResourceCPU \in DOMAIN ps.Spec.Containers[i]
    \/ \E i \in 1..Len(ps.Spec.InitContainers) :
           ResourceCPU \in DOMAIN ps.Spec.InitContainers[i]
    \/ ResourceCPU \in DOMAIN ps.Spec.Overhead

\* C10 as amended: the example pod set yields CPU (max(500, 100+200) + 50) x 2 =
\* 1100m; in general the init-container peak stands when it exceeds the sum of
\* the containers and the sum stands otherwise, and the overhead is added to
\* whichever stands before the replica count multiplies.
C10_Aggregation ==
    (demand # <<>> /\ NamesCpu(pod)) =>
        LET sum == CpuSum(pod.Spec.Containers)
            peak == CpuPeak(pod.Spec.InitContainers)
            overhead == CpuOf(pod.Spec.Overhead)
            cpu == demand[1].Requests[ResourceCPU]
        IN /\ pod = ExamplePod => cpu = 1100
           /\ peak > sum => cpu = (peak + overhead) * pod.Count
           /\ peak <= sum => cpu = (sum + overhead) * pod.Count

\* C10 witness: the demand of the example pod set has been calculated.
C10_Witness ==
    demand # <<>> /\ pod = ExamplePod

\* C10 as stated: the example yields max(500, 100+200+50) x 2 = 1000m, the
\* init-container peak standing against the sum of containers plus overhead.
C10_AsStated ==
    (demand # <<>> /\ NamesCpu(pod)) =>
        LET sum == CpuSum(pod.Spec.Containers)
            peak == CpuPeak(pod.Spec.InitContainers)
            overhead == CpuOf(pod.Spec.Overhead)
            cpu == demand[1].Requests[ResourceCPU]
        IN /\ pod = ExamplePod => cpu = 1000
           /\ cpu = max(peak, sum + overhead) * pod.Count

\* The request of resource r in a resource list, in the units the code counts
\* it in; 0 when the list does not name r.
RequestOf(rl, r) == IF r \in DOMAIN rl THEN ResourceValue(r, rl[r]) ELSE 0

RECURSIVE RequestSum(_, _)
RequestSum(cs, r) ==
    IF cs = <<>> THEN 0 ELSE RequestOf(Head(cs), r) + RequestSum(Tail(cs), r)

RECURSIVE RequestPeak(_, _)
RequestPeak(cs, r) ==
    IF cs = <<>> THEN 0 ELSE max(RequestOf(Head(cs), r), RequestPeak(Tail(cs), r))

\* The demand of a pod set for resource r as the demand algorithm defines it.
DemandOf(ps, r) ==
    (max(RequestSum(ps.Spec.Containers, r), RequestPeak(ps.Spec.InitContainers, r))
        + RequestOf(ps.Spec.Overhead, r)) * ps.Count

QueueInfos(qu) == {qu.items[k] : k \in DOMAIN qu.items}

\* C12: demand consistency.  After any sequence of Queue.AddOrUpdate,
\* AddFromQueue, PushIfNotPresent and PushOrUpdate, every Info of the Queue and
\* every Info of the ClusterQueue has the total requests the demand calculation
\* gives for the workload definition the Info holds.
C12_DemandConsistent ==
    \A info \in QueueInfos(q) \cup Entries(cq[1]) :
        info.TotalRequests = totalRequests(info.Obj.Spec)

\* C13: Queue.AddOrUpdate(w) keeps the Queue a set keyed by the workload key
\* and touches nothing else.  A key that is absent gets a freshly computed Info
\* and the item count grows by one; a key that is present gets the new workload
\* definition and the item count stays; the other items are unchanged, and so
\* is the index of the ClusterQueue.
C13_QueueAddOrUpdate ==
    [][\A w \in RedefinedWorkloads :
        (last'.op = "AddOrUpdate" /\ CallQueueAddOrUpdate(w)) =>
            LET key == Key(w)
            IN /\ IF key \in DOMAIN q.items
                  THEN /\ q'.items[key].Obj = w
                       /\ DOMAIN q'.items = DOMAIN q.items
                  ELSE /\ q'.items[key].Obj = w
                       /\ q'.items[key].TotalRequests = totalRequests(w.Spec)
                       /\ DOMAIN q'.items = DOMAIN q.items \cup {key}
                       /\ Cardinality(DOMAIN q'.items) = Cardinality(DOMAIN q.items) + 1
               /\ \A k \in DOMAIN q.items \ {key} : q'.items[k] = q.items[k]
               /\ q'.ClusterQueue = q.ClusterQueue
               /\ cq' = cq
      ]_vars

\* C13 witness: AddOrUpdate has given a stored key another definition, in a
\* Queue of two items whose ClusterQueue has entries.
C13_Witness ==
    /\ last.op = "AddOrUpdate"
    /\ Cardinality(DOMAIN q.items) = 2
    /\ hLen(H) = 2
    /\ \E k \in DOMAIN q.items : q.items[k].TotalRequests # totalRequests(q.items[k].Obj.Spec)

\* The two workloads differ in namespace or in name.
DistinctPair ==
    <<operands[1].Namespace, operands[1].Name>> # <<operands[2].Namespace, operands[2].Name>>

\* C14: Key gives different keys to two workloads that differ in namespace or
\* name, when the namespaces contain no slash.
C14_KeyInjective ==
    (/\ results # <<>>
     /\ operands[1].Namespace \in PlainNamespaces
     /\ operands[2].Namespace \in PlainNamespaces
     /\ DistinctPair)
        => results[1] # results[2]

\* C14 witness: the keys have been computed of two workloads of different
\* slash-free namespaces, one of them with a slash in its name.
C14_Witness ==
    /\ results # <<>>
    /\ operands[1].Namespace = "a" /\ operands[1].Name = "b/c"
    /\ operands[2].Namespace = "b" /\ operands[2].Name = "c"
    /\ results = <<"a/b/c", "b/c">>

\* C14 as stated: Key gives different keys to any two workloads that differ in
\* namespace or name, slashes allowed in both.
C14_AsStated ==
    (results # <<>> /\ DistinctPair) => results[1] # results[2]

\* C15: value snapshot.  Once an Info is pushed, a change the caller makes to
\* the workload definition it passed in, changing its priority for one, changes
\* neither the value the index stores nor what the comparator reads for the
\* entry, so that the caller's change alone never breaks the heap invariant.
C15_Snapshot ==
    [][\A n \in HeldNames, p \in HeldPriorities :
        CallSetPriority(n, p) =>
            /\ cq' = cq
            /\ HeapOrdered(H) => HeapOrdered(cq'[1].heap)
      ]_vars

\* The number of entries of the index that a call adds (negative: removes).
SizeChange == hLen(cq'[1].heap) - hLen(H)

\* C16: pending count.  The size of the index is the number of distinct keys
\* added and not yet removed: it starts at 0, a push of an absent key raises it
\* by one, PushOrUpdate or PushIfNotPresent on a present key leaves it, a
\* Delete or a Pop of a present entry lowers it by one, and in every state it
\* is the number of keys the index holds (0 once all are removed).
C16_PendingCount ==
    /\ hLen(H) = 0
    /\ [][/\ hLen(cq'[1].heap) = Cardinality(DOMAIN cq'[1].heap.items)
          /\ \A w \in IndexWorkloads :
                LET present == Key(w) \in DOMAIN H.items
                IN /\ (last'.op = "PushOrUpdate" /\ CallPushOrUpdate(w)) =>
                          /\ SizeChange = IF present THEN 0 ELSE 1
                          /\ DOMAIN cq'[1].heap.items = DOMAIN H.items \cup {Key(w)}
                   /\ (last'.op = "PushIfNotPresent" /\ CallPushIfNotPresent(NewInfo(w))) =>
                          /\ SizeChange = IF present THEN 0 ELSE 1
                          /\ DOMAIN cq'[1].heap.items = DOMAIN H.items \cup {Key(w)}
                   /\ (last'.op = "Delete" /\ CallDelete(w)) =>
                          /\ SizeChange = IF present THEN -1 ELSE 0
                          /\ DOMAIN cq'[1].heap.items = DOMAIN H.items \ {Key(w)}
          /\ (last'.op = "Pop" /\ CallPop) =>
                /\ SizeChange = IF hLen(H) = 0 THEN 0 ELSE -1
                /\ \A info \in last'.val :
                       DOMAIN cq'[1].heap.items = DOMAIN H.items \ {Key(info.Obj)}
         ]_vars

\* C16 witness: three workloads are pending after a fourth was added and
\* deleted again.
C16_Witness ==
    /\ last.op = "Delete"
    /\ hLen(H) = 3
    /\ Cardinality(DOMAIN H.items) = 3

\* C17: for non-negative quantities and a non-negative replica count, every
\* request computed is at least 0 and is exactly the per-pod quantity times the
\* replica count, with no rounding, clamping or wrap-around.
C17_ExactProduct ==
    demand # <<>> =>
        \A r \in {ResourceCPU, ResourceMemory} :
            /\ Get(demand[1].Requests, r) >= 0
            /\ Get(demand[1].Requests, r) = DemandOf(pod, r)

\* Neither operand i nor operand j was found less than the other.
Incomparable(i, j) == ~results[i][j] /\ ~results[j][i]

\* Operands i and j have the same priority and the same creation timestamp.
SameRank(i, j) ==
    /\ operands[i].Obj.Spec.Priority = operands[j].Obj.Spec.Priority
    /\ operands[i].Obj.CreationTimestamp = operands[j].Obj.CreationTimestamp

\* C18: strictFIFO is a strict weak ordering: irreflexive, asymmetric and
\* transitive, with incomparability transitive and holding exactly for equal
\* priority and equal creation timestamp; less(a, b) holds exactly when a has
\* the higher priority, or the same priority and the strictly earlier creation.
C18_StrictWeakOrder ==
    results # <<>> =>
        \A i, j, k \in 1..3 :
            /\ ~results[i][i]
            /\ results[i][j] => ~results[j][i]
            /\ (results[i][j] /\ results[j][k]) => results[i][k]
            /\ (Incomparable(i, j) /\ Incomparable(j, k)) => Incomparable(i, k)
            /\ Incomparable(i, j) <=> SameRank(i, j)
            /\ results[i][j] <=> SortsBefore(operands[i], operands[j])

\* C18 witness: strictFIFO has compared three Infos of which two tie in
\* priority and creation and the third has their priority and a later creation.
C18_Witness ==
    /\ results # <<>>
    /\ SameRank(1, 2)
    /\ operands[3].Obj.Spec.Priority = operands[1].Obj.Spec.Priority
    /\ operands[3].Obj.CreationTimestamp > operands[1].Obj.CreationTimestamp
    /\ results[1][3] /\ results[2][3] /\ ~results[1][2] /\ ~results[2][1]

\* C19: index consistency.  The map from key to item and the backing sequence
\* of keys describe one set: no key occurs twice in the sequence, the sequence
\* is as long as the map is large, a key is in the one exactly when it is in
\* the other, the index an item records is the position of its key, and the
\* Info of an entry has the key it is stored under.
C19_IndexConsistent ==
    /\ \A i, j \in 1..Len(H.heap) : i # j => H.heap[i] # H.heap[j]
    /\ Len(H.heap) = Cardinality(DOMAIN H.items)
    /\ {H.heap[i] : i \in 1..Len(H.heap)} = DOMAIN H.items
    /\ \A k \in DOMAIN H.items :
          /\ H.items[k].index \in 0..(Len(H.heap) - 1)
          /\ H.heap[H.items[k].index + 1] = k
          /\ Key(H.items[k].obj.Obj) = k

\* C19 witness: four entries were stored and the head was popped; an entry of
\* priority 3 is recorded at position 2, the last.
C19_Witness ==
    /\ last.op = "Pop"
    /\ last.ok
    /\ hLen(H) = 3
    /\ \E k \in DOMAIN H.items :
          H.items[k].index = 2 /\ H.items[k].obj.Obj.Spec.Priority = 3

\* AddFromQueue followed by DeleteFromQueue, from the state at hand, leaves the
\* index with the entries it has, whatever the orders of the two iterations.
RoundTripRestores ==
    \A o1, o2 \in RangeOrders(DOMAIN q.items) :
        Entries(DeleteFromQueue(AddFromQueue(cq[1], q, o1).cq, q, o2)) = Entries(cq[1])

\* C20: DeleteFromQueue(queue) removes from the index the entries whose keys
\* are keys of the Queue's items and no other: the remaining entries keep their
\* values, the items of the Queue are untouched, an item never in the index is
\* skipped; and AddFromQueue followed by DeleteFromQueue restores the entries
\* of an index that held none of the Queue's keys.
C20_DeleteFromQueue ==
    /\ []((DOMAIN H.items \cap DOMAIN q.items = {}) => RoundTripRestores)
    /\ [][\A order \in RangeOrders(DOMAIN q.items) :
            (last'.op = "DeleteFromQueue" /\ CallDeleteFromQueue(order)) =>
                LET present == DOMAIN q.items \cap DOMAIN H.items
                IN /\ DOMAIN cq'[1].heap.items = DOMAIN H.items \ DOMAIN q.items
                   /\ hLen(cq'[1].heap) = hLen(H) - Cardinality(present)
                   /\ \A k \in DOMAIN H.items \ DOMAIN q.items :
                          cq'[1].heap.items[k].obj = H.items[k].obj
                   /\ q' = q
         ]_vars

\* C20 witness: DeleteFromQueue has run with a Queue of two items and has left
\* the entry of another Queue's workload in the index.
C20_Witness ==
    /\ last.op = "DeleteFromQueue"
    /\ Cardinality(DOMAIN q.items) = 2
    /\ DOMAIN H.items = {"ns/d"}

====
